---- MODULE Spec2Model ----
(***************************************************************************)
(* Voice Satellite, ESP32-S3 firmware (esp32/src/main.cpp): the push-to-   *)
(* talk recording / HTTP exchange / playback loop over the single          *)
(* audioBuffer.                                                            *)
(*                                                                         *)
(* One loop() iteration is one action up to the point where it blocks on   *)
(* the network; the blocking parts of sendAudioToServer (the POST, the     *)
(* receive loop, the playback loop) are further actions ordered by pc.     *)
(* The program state is handled as a record so that every function of the  *)
(* firmware is an operator from state to state, composed as in the code.   *)
(***************************************************************************)
EXTENDS Integers, Sequences, FiniteSets, TLC

(***************************************************************************)
(* Program constants (main.cpp, AUDIO CONFIGURATION).                      *)
(***************************************************************************)
SAMPLE_RATE == 16000
BITS_PER_SAMPLE == 16
CHANNELS == 1
BYTES_PER_SAMPLE == BITS_PER_SAMPLE \div 8
I2S_READ_BUF_SIZE == 1024
MAX_RECORDING_SECS == 15
MAX_AUDIO_BYTES == SAMPLE_RATE * BYTES_PER_SAMPLE * MAX_RECORDING_SECS
WAV_HEADER_SIZE == 44
PLAY_CHUNK_SIZE == 1024
HTTP_CODE_OK == 200

HIGH == TRUE
LOW == FALSE

\* capacity of audioBuffer as allocated in setup()
BufferCapacity == MAX_AUDIO_BYTES + WAV_HEADER_SIZE

(***************************************************************************)
(* Bounds of the model (inputs of the environment).                        *)
(***************************************************************************)
\* irregular microphone reads (failed, empty or short) in a run
MaxIrregularReads == 1
\* a release comes either while the payload is at most this many bytes, or
\* when the buffer is within two full reads of its capacity, or after
\* capture has stopped
MaxShortPayload == 32768
\* payload sizes 1..MaxSmallSize of the header round trip
MaxSmallSize == 40
\* changes of the button between two samples of loop(): press, release,
\* press
MaxToggles == 3
\* changes of the button while one exchange is in flight: press, release
MaxExchangeToggles == 2
\* polls of one receive loop that find nothing available
MaxEmptyPolls == 1

(***************************************************************************)
(* Text.  Strings the code inspects are tuples of characters, so that      *)
(* String::startsWith is computed.                                         *)
(***************************************************************************)
AUDIO_WAV == <<"a","u","d","i","o","/","w","a","v">>

startsWith(s, prefix) ==
    /\ Len(s) >= Len(prefix)
    /\ SubSeq(s, 1, Len(prefix)) = prefix

ContentTypes ==
    { AUDIO_WAV,
      AUDIO_WAV \o <<";"," ","x">>,
      <<"a","u","d","i","o","/","m","p","3">>,
      <<"a","p","p","l","i","c","a","t","i","o","n","/","j","s","o","n">>,
      <<"A","u","d","i","o","/","w","a","v">>,
      <<"a","u","d","i","o">>,
      << >> }

(***************************************************************************)
(* size_t arithmetic.  size_t is 32 bits on the ESP32.  The wrapped result *)
(* of an underflowing subtraction (2^32 - k) is beyond the integers TLC    *)
(* evaluates; it is represented by SIZE_WRAPPED - k, which keeps it larger *)
(* than every buffer offset.                                               *)
(***************************************************************************)
SIZE_WRAPPED == 2147483647

SizeSub(a, b) == IF a >= b THEN a - b ELSE SIZE_WRAPPED - (b - a)

Min(a, b) == IF a < b THEN a ELSE b

(***************************************************************************)
(* float.  (float)n / (SAMPLE_RATE * BYTES_PER_SAMPLE) is the IEEE-754     *)
(* single nearest to n/d (round to nearest, ties to even): a mantissa m    *)
(* with 2^23 <= m <= 2^24 and a scale s, the value being m / 2^s.  Both    *)
(* operands are exact as floats (they are below 2^24).  The quotient is    *)
(* developed bit by bit so that no intermediate exceeds 2*d.               *)
(***************************************************************************)
F32_MANT_BITS == 24

Pow2(k) == 2 ^ k

RECURSIVE F32Develop(_, _, _, _)
F32Develop(q, r, s, d) ==
    IF q >= Pow2(F32_MANT_BITS - 1)
    THEN [q |-> q, r |-> r, s |-> s]
    ELSE F32Develop(2 * q + ((2 * r) \div d), (2 * r) % d, s + 1, d)

\* n / d as a float, for 0 <= n < 2^24 and 0 < d
F32Div(n, d) ==
    IF n = 0 THEN [m |-> 0, s |-> 0]
    ELSE LET t == F32Develop(n \div d, n % d, 0, d)
             up == \/ 2 * t.r > d
                   \/ (2 * t.r = d /\ t.q % 2 = 1)
         IN  [m |-> IF up THEN t.q + 1 ELSE t.q, s |-> t.s]

\* The literal 0.3 is a double: 0x3FD3333333333333 = 5404319552844595/2^54,
\* strictly between 10066329/2^25 and 10066330/2^25.  A float m/2^s with
\* 2^23 <= m <= 2^24 exceeds it iff it is at least 1/2 (s < 25), or s = 25
\* and m > 10066329.
POINT3_SCALE == 25
POINT3_MANT == 10066329

F32GreaterThanPoint3(f) ==
    /\ f.m > 0
    /\ \/ f.s < POINT3_SCALE
       \/ (f.s = POINT3_SCALE /\ f.m > POINT3_MANT)

\* variant: the duration is taken per sample, the sample width left out
DurationLongEnough_PerSample(audioDataSize) ==
    F32GreaterThanPoint3(F32Div(audioDataSize, SAMPLE_RATE))

\* loop(): durationSecs > 0.3
DurationLongEnough(audioDataSize) ==
    F32GreaterThanPoint3(F32Div(audioDataSize, SAMPLE_RATE * BYTES_PER_SAMPLE))

(***************************************************************************)
(* WAV header.  buf is the first WAV_HEADER_SIZE bytes of audioBuffer,     *)
(* buf[i] of the code being buf[i+1] here.                                 *)
(***************************************************************************)
U8(x) == x % 256
Shr(x, k) == x \div Pow2(k)

CH_R == 82
CH_I == 73
CH_F == 70
CH_W == 87
CH_A == 65
CH_V == 86
CH_E == 69
CH_f == 102
CH_m == 109
CH_t == 116
CH_SP == 32
CH_d == 100
CH_a == 97

\* variant: the data sub-chunk length is written as the RIFF chunk size
writeWavHeader_RiffSizeAsData(buf, dataSize) ==
    LET fileSize   == dataSize + WAV_HEADER_SIZE - 8
        byteRate   == SAMPLE_RATE * CHANNELS * BYTES_PER_SAMPLE
        blockAlign == CHANNELS * BYTES_PER_SAMPLE
    IN [buf EXCEPT
          ![1]  = CH_R, ![2]  = CH_I, ![3]  = CH_F, ![4]  = CH_F,
          ![5]  = U8(fileSize),
          ![6]  = U8(Shr(fileSize, 8)),
          ![7]  = U8(Shr(fileSize, 16)),
          ![8]  = U8(Shr(fileSize, 24)),
          ![9]  = CH_W, ![10] = CH_A, ![11] = CH_V, ![12] = CH_E,
          ![13] = CH_f, ![14] = CH_m, ![15] = CH_t, ![16] = CH_SP,
          ![17] = 16,   ![18] = 0,    ![19] = 0,    ![20] = 0,
          ![21] = 1,    ![22] = 0,
          ![23] = U8(CHANNELS), ![24] = 0,
          ![25] = U8(SAMPLE_RATE),
          ![26] = U8(Shr(SAMPLE_RATE, 8)),
          ![27] = U8(Shr(SAMPLE_RATE, 16)),
          ![28] = U8(Shr(SAMPLE_RATE, 24)),
          ![29] = U8(byteRate),
          ![30] = U8(Shr(byteRate, 8)),
          ![31] = U8(Shr(byteRate, 16)),
          ![32] = U8(Shr(byteRate, 24)),
          ![33] = U8(blockAlign), ![34] = 0,
          ![35] = BITS_PER_SAMPLE, ![36] = 0,
          ![37] = CH_d, ![38] = CH_a, ![39] = CH_t, ![40] = CH_a,
          ![41] = U8(fileSize),
          ![42] = U8(Shr(fileSize, 8)),
          ![43] = U8(Shr(fileSize, 16)),
          ![44] = U8(Shr(fileSize, 24))]

writeWavHeader(buf, dataSize) ==
    LET fileSize   == dataSize + WAV_HEADER_SIZE - 8
        byteRate   == SAMPLE_RATE * CHANNELS * BYTES_PER_SAMPLE
        blockAlign == CHANNELS * BYTES_PER_SAMPLE
    IN [buf EXCEPT
          ![1]  = CH_R, ![2]  = CH_I, ![3]  = CH_F, ![4]  = CH_F,
          ![5]  = U8(fileSize),
          ![6]  = U8(Shr(fileSize, 8)),
          ![7]  = U8(Shr(fileSize, 16)),
          ![8]  = U8(Shr(fileSize, 24)),
          ![9]  = CH_W, ![10] = CH_A, ![11] = CH_V, ![12] = CH_E,
          ![13] = CH_f, ![14] = CH_m, ![15] = CH_t, ![16] = CH_SP,
          ![17] = 16,   ![18] = 0,    ![19] = 0,    ![20] = 0,
          ![21] = 1,    ![22] = 0,
          ![23] = U8(CHANNELS), ![24] = 0,
          ![25] = U8(SAMPLE_RATE),
          ![26] = U8(Shr(SAMPLE_RATE, 8)),
          ![27] = U8(Shr(SAMPLE_RATE, 16)),
          ![28] = U8(Shr(SAMPLE_RATE, 24)),
          ![29] = U8(byteRate),
          ![30] = U8(Shr(byteRate, 8)),
          ![31] = U8(Shr(byteRate, 16)),
          ![32] = U8(Shr(byteRate, 24)),
          ![33] = U8(blockAlign), ![34] = 0,
          ![35] = BITS_PER_SAMPLE, ![36] = 0,
          ![37] = CH_d, ![38] = CH_a, ![39] = CH_t, ![40] = CH_a,
          ![41] = U8(dataSize),
          ![42] = U8(Shr(dataSize, 8)),
          ![43] = U8(Shr(dataSize, 16)),
          ![44] = U8(Shr(dataSize, 24))]

\* little-endian 32-bit field at byte offset off of buf
Le32(buf, off) ==
    buf[off + 1] + 256 * buf[off + 2] + 65536 * buf[off + 3]
        + 16777216 * buf[off + 4]

\* consumer side (the hub): reject a body shorter than the header, verify
\* the container and format tags, read the declared payload length
validateHeader(buf, length) ==
    IF length < WAV_HEADER_SIZE
    THEN [ok |-> FALSE, declared |-> 0]
    ELSE IF \/ SubSeq(buf, 1, 4) # <<CH_R, CH_I, CH_F, CH_F>>
            \/ SubSeq(buf, 9, 12) # <<CH_W, CH_A, CH_V, CH_E>>
         THEN [ok |-> FALSE, declared |-> 0]
         ELSE [ok |-> TRUE, declared |-> Le32(buf, 40)]

\* contents of freshly allocated memory: the header region before the
\* first write
ZeroHeader == [i \in 1..WAV_HEADER_SIZE |-> 0]
InitialHeaders == { ZeroHeader, [i \in 1..WAV_HEADER_SIZE |-> 7] }

(***************************************************************************)
(* Program state.                                                          *)
(*   audioBuffer      "nullptr" or "allocated"                             *)
(*   header           audioBuffer[0 .. WAV_HEADER_SIZE-1]                  *)
(*   audioBufferPos, isRecording, lastButtonState   the globals            *)
(*   led              level of LED_PIN                                     *)
(*   buttonState, audioDataSize                     locals of loop()       *)
(*   wifi, totalSize, httpCode, contentType, responseLen, bytesRead        *)
(*                    locals of sendAudioToServer(); wifi is the sampled   *)
(*                    WiFi.status(); totalSize is the length handed to     *)
(*                    http.POST                                            *)
(*   offset, totalBytes                             locals of playAudio()  *)
(* Observation of the current loop() iteration (reset when an iteration    *)
(* starts):                                                                *)
(*   serial           the Serial lines printed, as tags                    *)
(*   posts, plays, flushes   calls of http.POST, playAudio and             *)
(*                    i2s_zero_dma_buffer(I2S_DAC_PORT)                    *)
(* and, kept across iterations:                                            *)
(*   lastWrite        the latest write into audioBuffer: what wrote it and *)
(*                    the offsets [lo, hi) it covered                      *)
(*   irregular        irregular microphone reads so far                    *)
(*   hub              what the consumer of a container made of it          *)
(*   uttPosts         calls of http.POST since the latest startRecording   *)
(*   uttBytes         bytes captureAudioChunk copied into the buffer since *)
(*                    the latest startRecording                            *)
(*   toWrite          playAudio's local: the size offered to the latest    *)
(*                    i2s_write                                            *)
(*   bytesWritten     playAudio's local: the sum of what i2s_write         *)
(*                    accepted                                             *)
(*   emptyPolls       passes of the receive loop of this iteration that    *)
(*                    found nothing available (calls of delay(1))          *)
(* The environment:                                                        *)
(*   pin              the level of BUTTON_PIN now                          *)
(*   pinToggles       changes of the pin since loop() last sampled it      *)
(*   pressEdges       press edges of the pin between the previous sample   *)
(*                    and the sample of this iteration                     *)
(*   heldPress        the sample of this iteration read a press whose edge *)
(*                    came while the previous exchange was in flight and   *)
(*                    that has been held since                             *)
(*   streamLeft       body bytes the hub has yet to deliver on the         *)
(*                    response stream while the receive loop reads it      *)
(***************************************************************************)
VARIABLES pc, audioBuffer, header, audioBufferPos, isRecording,
          lastButtonState, led, buttonState, audioDataSize,
          wifi, totalSize, httpCode, contentType, responseLen, bytesRead,
          offset, totalBytes,
          serial, posts, plays, flushes, lastWrite, irregular, hub,
          uttPosts, emptyPolls, pin, pinToggles, pressEdges, heldPress,
          streamLeft, uttBytes, toWrite, bytesWritten

vars == <<pc, audioBuffer, header, audioBufferPos, isRecording,
          lastButtonState, led, buttonState, audioDataSize,
          wifi, totalSize, httpCode, contentType, responseLen, bytesRead,
          offset, totalBytes,
          serial, posts, plays, flushes, lastWrite, irregular, hub,
          uttPosts, emptyPolls, pin, pinToggles, pressEdges, heldPress,
          streamLeft, uttBytes, toWrite, bytesWritten>>

\* the state as a record, and the assignment of a record to the next state
Cur ==
    [pc |-> pc, audioBuffer |-> audioBuffer, header |-> header,
     audioBufferPos |-> audioBufferPos, isRecording |-> isRecording,
     lastButtonState |-> lastButtonState, led |-> led,
     buttonState |-> buttonState, audioDataSize |-> audioDataSize,
     wifi |-> wifi, totalSize |-> totalSize, httpCode |-> httpCode,
     contentType |-> contentType, responseLen |-> responseLen,
     bytesRead |-> bytesRead, offset |-> offset, totalBytes |-> totalBytes,
     serial |-> serial, posts |-> posts, plays |-> plays,
     flushes |-> flushes, lastWrite |-> lastWrite, irregular |-> irregular,
     hub |-> hub, uttPosts |-> uttPosts, emptyPolls |-> emptyPolls,
     pin |-> pin, pinToggles |-> pinToggles, pressEdges |-> pressEdges,
     heldPress |-> heldPress, streamLeft |-> streamLeft,
     uttBytes |-> uttBytes, toWrite |-> toWrite,
     bytesWritten |-> bytesWritten]

Becomes(s) ==
    /\ pc' = s.pc
    /\ audioBuffer' = s.audioBuffer
    /\ header' = s.header
    /\ audioBufferPos' = s.audioBufferPos
    /\ isRecording' = s.isRecording
    /\ lastButtonState' = s.lastButtonState
    /\ led' = s.led
    /\ buttonState' = s.buttonState
    /\ audioDataSize' = s.audioDataSize
    /\ wifi' = s.wifi
    /\ totalSize' = s.totalSize
    /\ httpCode' = s.httpCode
    /\ contentType' = s.contentType
    /\ responseLen' = s.responseLen
    /\ bytesRead' = s.bytesRead
    /\ offset' = s.offset
    /\ totalBytes' = s.totalBytes
    /\ serial' = s.serial
    /\ posts' = s.posts
    /\ plays' = s.plays
    /\ flushes' = s.flushes
    /\ lastWrite' = s.lastWrite
    /\ irregular' = s.irregular
    /\ hub' = s.hub
    /\ uttPosts' = s.uttPosts
    /\ emptyPolls' = s.emptyPolls
    /\ pin' = s.pin
    /\ pinToggles' = s.pinToggles
    /\ pressEdges' = s.pressEdges
    /\ heldPress' = s.heldPress
    /\ streamLeft' = s.streamLeft
    /\ uttBytes' = s.uttBytes
    /\ toWrite' = s.toWrite
    /\ bytesWritten' = s.bytesWritten

NoWrite == [op |-> "none", lo |-> 0, hi |-> 0]
NotValidated == [ok |-> FALSE, declared |-> 0, received |-> 0]

\* Serial.println / Serial.printf
Emit(s, line) == [s EXCEPT !.serial = Append(@, line)]

(***************************************************************************)
(* RECORDING                                                               *)
(***************************************************************************)
\* variant: the cursor is left where the previous recording ended
startRecording_KeepsCursor(s) ==
    Emit([s EXCEPT !.isRecording = TRUE,
                    !.led = HIGH,
                    !.uttPosts = 0,
                    !.uttBytes = 0],
          "REC_STARTED")

\* variant: the cursor is reset to the start of the buffer
startRecording_CursorAtZero(s) ==
    Emit([s EXCEPT !.audioBufferPos = 0,
                    !.isRecording = TRUE,
                    !.led = HIGH,
                    !.uttPosts = 0,
                    !.uttBytes = 0],
          "REC_STARTED")

startRecording(s) ==
    Emit([s EXCEPT !.audioBufferPos = WAV_HEADER_SIZE,
                    !.isRecording = TRUE,
                    !.led = HIGH,
                    !.uttPosts = 0,
                    !.uttBytes = 0],
          "REC_STARTED")

\* variant: the room check leaves the size of the chunk out
captureAudioChunk_NoChunkSize(s, result, n) ==
    IF ~s.isRecording THEN s
    ELSE IF result = "ESP_OK" /\ n > 0
         THEN IF s.audioBufferPos <= MAX_AUDIO_BYTES + WAV_HEADER_SIZE
              THEN [s EXCEPT
                      !.lastWrite = [op |-> "capture",
                                     lo |-> s.audioBufferPos,
                                     hi |-> s.audioBufferPos + n],
                      !.audioBufferPos = @ + n,
                      !.uttBytes = @ + n]
              ELSE Emit([s EXCEPT !.isRecording = FALSE, !.led = LOW],
                        "REC_BUFFER_FULL")
         ELSE s

\* result and n are what i2s_read returns: its status and bytesRead
captureAudioChunk(s, result, n) ==
    IF ~s.isRecording THEN s
    ELSE IF result = "ESP_OK" /\ n > 0
         THEN IF s.audioBufferPos + n <= MAX_AUDIO_BYTES + WAV_HEADER_SIZE
              THEN [s EXCEPT
                      !.lastWrite = [op |-> "capture",
                                     lo |-> s.audioBufferPos,
                                     hi |-> s.audioBufferPos + n],
                      !.audioBufferPos = @ + n,
                      !.uttBytes = @ + n]
              ELSE Emit([s EXCEPT !.isRecording = FALSE, !.led = LOW],
                         "REC_BUFFER_FULL")
         ELSE s

\* variant: the header is written for the whole cursor, header included
stopRecording_WholeCursor(s) ==
    [Emit([s EXCEPT !.isRecording = FALSE, !.led = LOW], "REC_STOPPED")
       EXCEPT !.header = writeWavHeader(@, s.audioBufferPos),
              !.lastWrite = [op |-> "header", lo |-> 0,
                             hi |-> WAV_HEADER_SIZE]]

\* variant: the recording flag survives the stop
stopRecording_StillRecording(s) ==
    LET dataSize == SizeSub(s.audioBufferPos, WAV_HEADER_SIZE)
    IN  [Emit([s EXCEPT !.led = LOW], "REC_STOPPED")
           EXCEPT !.header = writeWavHeader(@, dataSize),
                  !.lastWrite = [op |-> "header", lo |-> 0,
                                 hi |-> WAV_HEADER_SIZE]]

stopRecording(s) ==
    LET dataSize == SizeSub(s.audioBufferPos, WAV_HEADER_SIZE)
    IN  [Emit([s EXCEPT !.isRecording = FALSE, !.led = LOW], "REC_STOPPED")
           EXCEPT !.header = writeWavHeader(@, dataSize),
                  !.lastWrite = [op |-> "header", lo |-> 0,
                                 hi |-> WAV_HEADER_SIZE]]

(***************************************************************************)
(* HTTP SEND & RECEIVE                                                     *)
(***************************************************************************)
\* variant: the busy indicator is left on at the end of the exchange
exchangeReturn_LedLeftOn(s) ==
    [s EXCEPT !.streamLeft = 0,
              !.lastButtonState = s.buttonState, !.pc = "loop"]

\* variant: the tail of loop() samples the button again
exchangeReturn_SamplesAgain(s) ==
    [s EXCEPT !.streamLeft = 0, !.led = LOW,
              !.lastButtonState = s.pin, !.pc = "loop"]

\* http.end(); digitalWrite(LED_PIN, LOW); and, back in loop(), the tail
\* lastButtonState = buttonState
exchangeReturn(s) ==
    [s EXCEPT !.streamLeft = 0, !.led = LOW,
              !.lastButtonState = s.buttonState, !.pc = "loop"]

\* variant: the busy indicator is raised before the link check
sendAudioToServer_LedFirst(s, connected) ==
    IF ~connected
    THEN Emit([s EXCEPT !.wifi = "down", !.led = HIGH], "HTTP_WIFI_DOWN")
    ELSE [Emit([s EXCEPT !.wifi = "connected"], "HTTP_SENDING")
            EXCEPT !.totalSize = s.audioBufferPos,
                   !.led = HIGH,
                   !.posts = @ + 1,
                   !.uttPosts = @ + 1,
                   !.pc = "post"]

\* variant: the busy indicator is not raised
sendAudioToServer_NoBusyLed(s, connected) ==
    IF ~connected
    THEN Emit([s EXCEPT !.wifi = "down"], "HTTP_WIFI_DOWN")
    ELSE [Emit([s EXCEPT !.wifi = "connected"], "HTTP_SENDING")
            EXCEPT !.totalSize = s.audioBufferPos,
                   !.posts = @ + 1,
                   !.uttPosts = @ + 1,
                   !.pc = "post"]

\* sendAudioToServer() up to and including the call of http.POST;
\* connected is WiFi.status() == WL_CONNECTED
sendAudioToServer(s, connected) ==
    IF ~connected
    THEN Emit([s EXCEPT !.wifi = "down"], "HTTP_WIFI_DOWN")
    ELSE [Emit([s EXCEPT !.wifi = "connected"], "HTTP_SENDING")
            EXCEPT !.totalSize = s.audioBufferPos,
                   !.led = HIGH,
                   !.posts = @ + 1,
                   !.uttPosts = @ + 1,
                   !.pc = "post"]

\* variant: playback starts at the first byte of the buffer
playAudio_FromBufferStart(s, total) ==
    LET t == [Emit(s, "PLAY_PLAYING")
                EXCEPT !.plays = @ + 1,
                       !.totalBytes = total,
                       !.offset = 0,
                       !.bytesWritten = 0]
    IN  IF t.offset < total
        THEN [t EXCEPT !.pc = "play"]
        ELSE exchangeReturn(Emit([t EXCEPT !.flushes = @ + 1], "PLAY_DONE"))

\* playAudio() up to its first i2s_write
playAudio(s, total) ==
    LET t == [Emit(s, "PLAY_PLAYING")
                EXCEPT !.plays = @ + 1,
                       !.totalBytes = total,
                       !.offset = WAV_HEADER_SIZE,
                       !.bytesWritten = 0]
    IN  IF t.offset < total
        THEN [t EXCEPT !.pc = "play"]
        ELSE exchangeReturn(Emit([t EXCEPT !.flushes = @ + 1], "PLAY_DONE"))

\* variant: the offset advances by what was offered, not by what was
\* accepted
playStep_AdvancesByOffered(s, written) ==
    LET t == [s EXCEPT !.toWrite = Min(PLAY_CHUNK_SIZE,
                                       s.totalBytes - s.offset),
                       !.offset = @ + Min(PLAY_CHUNK_SIZE,
                                          s.totalBytes - s.offset),
                       !.bytesWritten = @ + written]
    IN  IF t.offset < t.totalBytes
        THEN t
        ELSE exchangeReturn(Emit([t EXCEPT !.flushes = @ + 1,
                                           !.toWrite = 0],
                                 "PLAY_DONE"))

\* one pass of the playback loop; written is what i2s_write reports
playStep(s, written) ==
    LET t == [s EXCEPT !.toWrite = Min(PLAY_CHUNK_SIZE,
                                       s.totalBytes - s.offset),
                       !.offset = @ + written,
                       !.bytesWritten = @ + written]
    IN  IF t.offset < t.totalBytes
        THEN t
        ELSE exchangeReturn(Emit([t EXCEPT !.flushes = @ + 1,
                                           !.toWrite = 0],
                                 "PLAY_DONE"))

\* variant: a text response is handed to playback as well
httpResponse_PlaysText(s, code, ctype, len) ==
    LET t == [s EXCEPT !.httpCode = code]
    IN  IF code = HTTP_CODE_OK
        THEN LET u == [Emit(t, "HTTP_RESPONSE_RECEIVED")
                         EXCEPT !.contentType = ctype, !.responseLen = len]
             IN  IF startsWith(ctype, AUDIO_WAV) /\ len > WAV_HEADER_SIZE
                 THEN IF len <= MAX_AUDIO_BYTES + WAV_HEADER_SIZE
                      THEN [Emit(u, "HTTP_AUDIO_RESPONSE")
                              EXCEPT !.bytesRead = 0, !.pc = "recv"]
                      ELSE exchangeReturn(
                               Emit(Emit(u, "HTTP_AUDIO_RESPONSE"),
                                    "HTTP_TOO_LARGE"))
                 ELSE playAudio(Emit(u, "HTTP_SERVER_RESPONSE"), len)
        ELSE exchangeReturn(Emit(t, "HTTP_ERROR"))

\* variant: the capacity check of an audio response is missing
httpResponse_NoCapacityCheck(s, code, ctype, len) ==
    LET t == [s EXCEPT !.httpCode = code]
    IN  IF code = HTTP_CODE_OK
        THEN LET u == [Emit(t, "HTTP_RESPONSE_RECEIVED")
                         EXCEPT !.contentType = ctype, !.responseLen = len]
             IN  IF startsWith(ctype, AUDIO_WAV) /\ len > WAV_HEADER_SIZE
                 THEN [Emit(u, "HTTP_AUDIO_RESPONSE")
                         EXCEPT !.bytesRead = 0, !.pc = "recv"]
                 ELSE exchangeReturn(Emit(u, "HTTP_SERVER_RESPONSE"))
        ELSE exchangeReturn(Emit(t, "HTTP_ERROR"))

\* variant: the error path returns at once, past the end of the function
httpResponse_ErrorReturnsEarly(s, code, ctype, len) ==
    LET t == [s EXCEPT !.httpCode = code]
    IN  IF code = HTTP_CODE_OK
        THEN LET u == [Emit(t, "HTTP_RESPONSE_RECEIVED")
                         EXCEPT !.contentType = ctype, !.responseLen = len]
             IN  IF startsWith(ctype, AUDIO_WAV) /\ len > WAV_HEADER_SIZE
                 THEN IF len <= MAX_AUDIO_BYTES + WAV_HEADER_SIZE
                      THEN [Emit(u, "HTTP_AUDIO_RESPONSE")
                              EXCEPT !.bytesRead = 0, !.pc = "recv"]
                      ELSE exchangeReturn(
                               Emit(Emit(u, "HTTP_AUDIO_RESPONSE"),
                                    "HTTP_TOO_LARGE"))
                 ELSE exchangeReturn(Emit(u, "HTTP_SERVER_RESPONSE"))
        ELSE [Emit(t, "HTTP_ERROR")
                EXCEPT !.lastButtonState = s.buttonState, !.pc = "loop"]

\* variant: the body of a text response is read into the buffer
httpResponse_TextIntoBuffer(s, code, ctype, len) ==
    LET t == [s EXCEPT !.httpCode = code]
    IN  IF code = HTTP_CODE_OK
        THEN LET u == [Emit(t, "HTTP_RESPONSE_RECEIVED")
                         EXCEPT !.contentType = ctype, !.responseLen = len]
             IN  IF startsWith(ctype, AUDIO_WAV) /\ len > WAV_HEADER_SIZE
                 THEN IF len <= MAX_AUDIO_BYTES + WAV_HEADER_SIZE
                      THEN [Emit(u, "HTTP_AUDIO_RESPONSE")
                              EXCEPT !.bytesRead = 0, !.pc = "recv"]
                      ELSE exchangeReturn(
                               Emit(Emit(u, "HTTP_AUDIO_RESPONSE"),
                                    "HTTP_TOO_LARGE"))
                 ELSE exchangeReturn(
                          [Emit(u, "HTTP_SERVER_RESPONSE")
                             EXCEPT !.lastWrite = [op |-> "recv", lo |-> 0,
                                                   hi |-> len]])
        ELSE exchangeReturn(Emit(t, "HTTP_ERROR"))

\* variant: a declared length equal to the header size counts as audio
httpResponse_HeaderSizeIsAudio(s, code, ctype, len) ==
    LET t == [s EXCEPT !.httpCode = code]
    IN  IF code = HTTP_CODE_OK
        THEN LET u == [Emit(t, "HTTP_RESPONSE_RECEIVED")
                         EXCEPT !.contentType = ctype, !.responseLen = len]
             IN  IF startsWith(ctype, AUDIO_WAV) /\ len >= WAV_HEADER_SIZE
                 THEN IF len <= MAX_AUDIO_BYTES + WAV_HEADER_SIZE
                      THEN [Emit(u, "HTTP_AUDIO_RESPONSE")
                              EXCEPT !.bytesRead = 0, !.pc = "recv"]
                      ELSE exchangeReturn(
                               Emit(Emit(u, "HTTP_AUDIO_RESPONSE"),
                                    "HTTP_TOO_LARGE"))
                 ELSE exchangeReturn(Emit(u, "HTTP_SERVER_RESPONSE"))
        ELSE exchangeReturn(Emit(t, "HTTP_ERROR"))

\* variant: a failed request is sent again
httpResponse_SendsAgain(s, code, ctype, len) ==
    LET t == [s EXCEPT !.httpCode = code]
    IN  IF code = HTTP_CODE_OK
        THEN LET u == [Emit(t, "HTTP_RESPONSE_RECEIVED")
                         EXCEPT !.contentType = ctype, !.responseLen = len]
             IN  IF startsWith(ctype, AUDIO_WAV) /\ len > WAV_HEADER_SIZE
                 THEN IF len <= MAX_AUDIO_BYTES + WAV_HEADER_SIZE
                      THEN [Emit(u, "HTTP_AUDIO_RESPONSE")
                              EXCEPT !.bytesRead = 0, !.pc = "recv"]
                      ELSE exchangeReturn(
                               Emit(Emit(u, "HTTP_AUDIO_RESPONSE"),
                                    "HTTP_TOO_LARGE"))
                 ELSE exchangeReturn(Emit(u, "HTTP_SERVER_RESPONSE"))
        ELSE IF s.uttPosts < 2
             THEN [Emit(t, "HTTP_ERROR") EXCEPT !.posts = @ + 1,
                                                !.uttPosts = @ + 1]
             ELSE exchangeReturn(Emit(t, "HTTP_ERROR"))

\* sendAudioToServer() from the return of http.POST to the receive loop:
\* code is the POST's result, ctype is http.header("Content-Type"), len is
\* http.getSize()
httpResponse(s, code, ctype, len) ==
    LET t == [s EXCEPT !.httpCode = code]
    IN  IF code = HTTP_CODE_OK
        THEN LET u == [Emit(t, "HTTP_RESPONSE_RECEIVED")
                         EXCEPT !.contentType = ctype, !.responseLen = len]
             IN  IF startsWith(ctype, AUDIO_WAV) /\ len > WAV_HEADER_SIZE
                 THEN IF len <= MAX_AUDIO_BYTES + WAV_HEADER_SIZE
                      THEN [Emit(u, "HTTP_AUDIO_RESPONSE")
                              EXCEPT !.bytesRead = 0, !.pc = "recv"]
                      ELSE exchangeReturn(
                               Emit(Emit(u, "HTTP_AUDIO_RESPONSE"),
                                     "HTTP_TOO_LARGE"))
                 ELSE exchangeReturn(Emit(u, "HTTP_SERVER_RESPONSE"))
        ELSE exchangeReturn(Emit(t, "HTTP_ERROR"))

\* the bytes the hub sends for a response of len bytes: a container header
\* for the payload, then the payload
ResponseHeader(len) == writeWavHeader(ZeroHeader, len - WAV_HEADER_SIZE)

\* stream->readBytes(audioBuffer + at, got) as far as it reaches the header
ReceiveInto(buf, at, got, len) ==
    [i \in 1..WAV_HEADER_SIZE |->
        IF at <= i - 1 /\ i - 1 < at + got
        THEN ResponseHeader(len)[i]
        ELSE buf[i]]

\* variant: everything available is read, whatever is left to read
recvStep_ReadsAvailable(s, available, got) ==
    LET t == IF available > 0 /\ got > 0
             THEN [s EXCEPT
                     !.header = ReceiveInto(@, s.bytesRead, available,
                                            s.responseLen),
                     !.lastWrite = [op |-> "recv", lo |-> s.bytesRead,
                                    hi |-> s.bytesRead + available],
                     !.bytesRead = @ + available,
                     !.streamLeft = @ - available]
             ELSE IF available > 0 THEN s
                  ELSE [s EXCEPT !.emptyPolls = @ + 1]
    IN  IF t.bytesRead < t.responseLen
        THEN t
        ELSE playAudio([t EXCEPT !.streamLeft = 0], t.bytesRead)

\* variant: the receive loop is left when nothing is available
recvStep_StopsWhenEmpty(s, available, got) ==
    LET t == IF available > 0 /\ got > 0
             THEN [s EXCEPT
                     !.header = ReceiveInto(@, s.bytesRead, got,
                                            s.responseLen),
                     !.lastWrite = [op |-> "recv", lo |-> s.bytesRead,
                                    hi |-> s.bytesRead + got],
                     !.bytesRead = @ + got,
                     !.streamLeft = @ - got]
             ELSE IF available > 0 THEN s
                  ELSE [s EXCEPT !.emptyPolls = @ + 1]
    IN  IF t.bytesRead < t.responseLen /\ available > 0
        THEN t
        ELSE playAudio([t EXCEPT !.streamLeft = 0], t.bytesRead)

\* one pass of the receive loop; available is stream->available() and got
\* is what readBytes returns for the toRead bytes asked of it
recvStep(s, available, got) ==
    LET t == IF available > 0 /\ got > 0
             THEN [s EXCEPT
                     !.header = ReceiveInto(@, s.bytesRead, got,
                                            s.responseLen),
                     !.lastWrite = [op |-> "recv", lo |-> s.bytesRead,
                                    hi |-> s.bytesRead + got],
                     !.bytesRead = @ + got,
                     !.streamLeft = @ - got]
             ELSE IF available > 0 THEN s
                  ELSE [s EXCEPT !.emptyPolls = @ + 1]
    IN  IF t.bytesRead < t.responseLen
        THEN t
        ELSE playAudio([t EXCEPT !.streamLeft = 0], t.bytesRead)

(***************************************************************************)
(* SETUP & LOOP                                                            *)
(***************************************************************************)
\* variant: the fatal branch reports and goes on to loop()
setup_FallsThrough(s, psram, heap, garbage) ==
    LET t == [s EXCEPT !.led = LOW]
    IN  IF psram
        THEN [Emit(t, "MEM_PSRAM") EXCEPT !.audioBuffer = "allocated",
                                            !.header = garbage,
                                            !.pc = "loop"]
        ELSE IF heap
             THEN [Emit(t, "MEM_HEAP") EXCEPT !.audioBuffer = "allocated",
                                                !.header = garbage,
                                                !.pc = "loop"]
             ELSE [Emit(t, "MEM_FATAL") EXCEPT !.pc = "loop"]

\* setup(): psram and heap tell whether ps_malloc and malloc succeed,
\* garbage is the content of the fresh memory
setup(s, psram, heap, garbage) ==
    LET t == [s EXCEPT !.led = LOW]
    IN  IF psram
        THEN [Emit(t, "MEM_PSRAM") EXCEPT !.audioBuffer = "allocated",
                                            !.header = garbage,
                                            !.pc = "loop"]
        ELSE IF heap
             THEN [Emit(t, "MEM_HEAP") EXCEPT !.audioBuffer = "allocated",
                                                !.header = garbage,
                                                !.pc = "loop"]
             ELSE [Emit(t, "MEM_FATAL") EXCEPT !.pc = "halted"]

\* the observation of an iteration starts empty
BeginIteration(s) ==
    [s EXCEPT !.serial = << >>, !.posts = 0, !.plays = 0, !.flushes = 0,
              !.wifi = "unchecked", !.totalSize = 0, !.httpCode = 0,
              !.contentType = << >>, !.responseLen = 0, !.bytesRead = 0,
              !.offset = 0, !.totalBytes = 0, !.audioDataSize = 0,
              !.emptyPolls = 0, !.toWrite = 0, !.bytesWritten = 0]

\* the release branch of loop()
release(s, connected) ==
    LET t == stopRecording(s)
        u == [t EXCEPT !.audioDataSize =
                          SizeSub(t.audioBufferPos, WAV_HEADER_SIZE)]
    IN  IF DurationLongEnough(u.audioDataSize)
        THEN sendAudioToServer(u, connected)
        ELSE Emit(u, "REC_TOO_SHORT")

\* variant: recording starts whenever the button is down and nothing is
\* being recorded
loop_RestartsWhenStopped(s, b, result, n, connected) ==
    LET s0 == [BeginIteration(s) EXCEPT !.buttonState = b]
        s1 == IF b = LOW /\ ~s0.isRecording
              THEN startRecording(s0) ELSE s0
        s2 == IF b = LOW /\ s1.isRecording
              THEN captureAudioChunk(s1, result, n) ELSE s1
        s3 == IF s2.lastButtonState = LOW /\ b = HIGH /\ s2.isRecording
              THEN release(s2, connected) ELSE s2
    IN  IF s3.pc = "post" THEN s3
        ELSE [s3 EXCEPT !.lastButtonState = b]

\* variant: recording starts on the level of the button, not on its edge
loop_LevelTriggered(s, b, result, n, connected) ==
    LET s0 == [BeginIteration(s) EXCEPT !.buttonState = b]
        s1 == IF b = LOW
              THEN startRecording(s0) ELSE s0
        s2 == IF b = LOW /\ s1.isRecording
              THEN captureAudioChunk(s1, result, n) ELSE s1
        s3 == IF s2.lastButtonState = LOW /\ b = HIGH /\ s2.isRecording
              THEN release(s2, connected) ELSE s2
    IN  IF s3.pc = "post" THEN s3
        ELSE [s3 EXCEPT !.lastButtonState = b]

\* loop() up to the point where it blocks in http.POST, or to its end;
\* b is digitalRead(BUTTON_PIN)
loop(s, b, result, n, connected) ==
    LET s0 == [BeginIteration(s) EXCEPT !.buttonState = b]
        s1 == IF s0.lastButtonState = HIGH /\ b = LOW
              THEN startRecording(s0) ELSE s0
        s2 == IF b = LOW /\ s1.isRecording
              THEN captureAudioChunk(s1, result, n) ELSE s1
        s3 == IF s2.lastButtonState = LOW /\ b = HIGH /\ s2.isRecording
              THEN release(s2, connected) ELSE s2
    IN  IF s3.pc = "post" THEN s3
        ELSE [s3 EXCEPT !.lastButtonState = b]

(***************************************************************************)
(* Inputs of the environment.                                              *)
(***************************************************************************)
\* i2s_read: the regular read fills the whole read buffer
RegularRead == <<"ESP_OK", I2S_READ_BUF_SIZE>>
IrregularReads ==
    { <<"ESP_FAIL", 0>>, <<"ESP_OK", 0>>, <<"ESP_OK", 256>>,
      <<"ESP_OK", 383>>, <<"ESP_OK", 384>>, <<"ESP_OK", 768>> }

\* results of http.POST: HTTP status codes and the client's negative errors
HttpCodes == { HTTP_CODE_OK, 201, 404, 500, -1, -11 }

\* http.getSize(): -1 when the hub declares no length
ResponseLens ==
    { -1, 0, WAV_HEADER_SIZE, WAV_HEADER_SIZE + 1, WAV_HEADER_SIZE + 1600,
      MAX_AUDIO_BYTES + WAV_HEADER_SIZE + 1 }

\* stream->available()
Availables == { 0, 1600, 4096 }

\* body bytes the hub really delivers for a declared length: all of them,
\* one less, none, or one more
Deliveries(len) == { len, len - 1, 0, len + 1 }

\* the pin after n changes, and the press edges among n changes
Flip(level, n) == IF n % 2 = 0 THEN level ELSE ~level
PressEdges(level, n) == IF level = HIGH THEN (n + 1) \div 2 ELSE n \div 2

\* the environment the model explores: the button changes more than once
\* between two samples only while no recording is in progress
BounceAllowed(n) == isRecording => n < 2

\* the sample of digitalRead(BUTTON_PIN) after n more changes of the pin:
\* what is recorded about the button at the sample
Sampled(s, n) ==
    [s EXCEPT !.pin = Flip(s.pin, n),
              !.pinToggles = 0,
              !.pressEdges = PressEdges(s.buttonState, s.pinToggles + n),
              !.heldPress = (s.pinToggles > 0 /\ s.pin = LOW /\ n = 0)]

\* readBytes may time out one byte short of what was asked
Gots(toRead) == { toRead, toRead - 1 }

\* i2s_write may accept nothing, or one byte less than offered
Writtens(size) == { size, size - 1, 0 }

\* the user lets go early in the recording, at the end of the buffer, or
\* after capture has stopped
ReleaseAllowed ==
    \/ ~isRecording
    \/ audioBufferPos - WAV_HEADER_SIZE <= MaxShortPayload
    \/ audioBufferPos + 2 * I2S_READ_BUF_SIZE > BufferCapacity

\* the exchange meets a hub that delivers another number of bytes than it
\* declared, polls that find nothing, and a user at the button, in the runs
\* whose microphone reads have all been regular
QuirksAllowed == irregular = 0

\* the user holds the button past the early part of a recording only in
\* the first recording after setup(), or in a run whose microphone reads
\* have all been regular
HoldAllowed(mic) ==
    \/ ~isRecording
    \/ audioBufferPos - WAV_HEADER_SIZE + I2S_READ_BUF_SIZE <= MaxShortPayload
    \/ header \in InitialHeaders
    \/ (irregular = 0 /\ mic = RegularRead)

(***************************************************************************)
(* Initial state: the globals as initialised, before setup().              *)
(***************************************************************************)
Init ==
    /\ pc = "setup"
    /\ audioBuffer = "nullptr"
    /\ header = ZeroHeader
    /\ audioBufferPos = 0
    /\ isRecording = FALSE
    /\ lastButtonState = HIGH
    /\ led = LOW
    /\ buttonState = HIGH
    /\ audioDataSize = 0
    /\ wifi = "unchecked"
    /\ totalSize = 0
    /\ httpCode = 0
    /\ contentType = << >>
    /\ responseLen = 0
    /\ bytesRead = 0
    /\ offset = 0
    /\ totalBytes = 0
    /\ serial = << >>
    /\ posts = 0
    /\ plays = 0
    /\ flushes = 0
    /\ lastWrite = NoWrite
    /\ irregular = 0
    /\ hub = NotValidated
    /\ uttPosts = 0
    /\ emptyPolls = 0
    /\ pin = HIGH
    /\ pinToggles = 0
    /\ pressEdges = 0
    /\ heldPress = FALSE
    /\ streamLeft = 0
    /\ uttBytes = 0
    /\ toWrite = 0
    /\ bytesWritten = 0

(***************************************************************************)
(* Actions.                                                                *)
(***************************************************************************)
Setup ==
    /\ pc = "setup"
    /\ \E psram \in BOOLEAN, heap \in BOOLEAN, garbage \in InitialHeaders :
          Becomes(setup(Cur, psram, heap, garbage))

\* one iteration of loop() in which the button reads pressed
LoopPressed ==
    /\ pc = "loop"
    /\ \E mic \in {RegularRead} \cup IrregularReads,
          n \in 0..(MaxToggles - pinToggles) :
          LET reads == lastButtonState = HIGH \/ isRecording
          IN  /\ Flip(pin, n) = LOW
              /\ BounceAllowed(n)
              /\ HoldAllowed(mic)
              /\ mic # RegularRead
                    => (reads /\ irregular < MaxIrregularReads)
              /\ Becomes([loop(Sampled(Cur, n), LOW, mic[1], mic[2], TRUE)
                            EXCEPT !.irregular =
                                      IF mic # RegularRead
                                      THEN @ + 1 ELSE @])

\* one iteration of loop() in which the button reads released
LoopReleased ==
    /\ pc = "loop"
    /\ ReleaseAllowed
    /\ \E connected \in BOOLEAN, n \in 0..(MaxToggles - pinToggles) :
          /\ Flip(pin, n) = HIGH
          /\ BounceAllowed(n)
          /\ ~connected => (lastButtonState = LOW /\ isRecording)
          /\ Becomes(loop(Sampled(Cur, n), HIGH, RegularRead[1],
                          RegularRead[2], connected))

\* http.POST returns
HttpResponse ==
    /\ pc = "post"
    /\ \E code \in HttpCodes, ctype \in ContentTypes, len \in ResponseLens :
          /\ code # HTTP_CODE_OK => (ctype = << >> /\ len = -1)
          /\ LET t == httpResponse(Cur, code, ctype, len)
             IN  \E delivered \in (IF t.pc # "recv" THEN {0}
                                   ELSE IF QuirksAllowed
                                        THEN Deliveries(len)
                                        ELSE {len}) :
                    Becomes([t EXCEPT !.streamLeft = delivered])

\* one pass of the receive loop
RecvStep ==
    /\ pc = "recv"
    /\ \E a \in Availables :
          LET available == Min(a, streamLeft)
              toRead == Min(available, responseLen - bytesRead)
          IN  /\ available = 0
                    => (emptyPolls < MaxEmptyPolls /\ QuirksAllowed)
              /\ \E got \in (IF available = 0 THEN {0} ELSE Gots(toRead)) :
                    Becomes(recvStep(Cur, available, got))

\* one pass of the playback loop
PlayStep ==
    /\ pc = "play"
    /\ LET size == Min(PLAY_CHUNK_SIZE, totalBytes - offset)
       IN  \E written \in Writtens(size) :
              Becomes(playStep(Cur, written))

\* the user presses or lets go of the button while sendAudioToServer runs
ButtonChange ==
    /\ pc \in {"post", "recv", "play"}
    /\ pinToggles < MaxExchangeToggles
    /\ QuirksAllowed
    /\ Becomes([Cur EXCEPT !.pin = ~pin, !.pinToggles = @ + 1])

Next ==
    \/ Setup
    \/ LoopPressed
    \/ LoopReleased
    \/ HttpResponse
    \/ RecvStep
    \/ PlayStep
    \/ ButtonChange

Spec == Init /\ [][Next]_vars

(***************************************************************************)
(* The header round trip on its own: a producer writes the header for a    *)
(* payload of audioBufferPos - WAV_HEADER_SIZE bytes, the consumer         *)
(* validates what it received (the whole container, or a body cut short).  *)
(***************************************************************************)
CodecSizes ==
    (1..MaxSmallSize)
        \cup { 255, 256, 257, 9600, 32000, 65535, 65536, 65537,
               MAX_AUDIO_BYTES - 1, MAX_AUDIO_BYTES }

CodecInit ==
    /\ pc = "codec"
    /\ audioBuffer = "allocated"
    /\ header \in InitialHeaders
    /\ audioBufferPos \in { WAV_HEADER_SIZE + n : n \in CodecSizes }
    /\ isRecording = FALSE
    /\ lastButtonState = HIGH
    /\ led = LOW
    /\ buttonState = HIGH
    /\ audioDataSize = 0
    /\ wifi = "unchecked"
    /\ totalSize = 0
    /\ httpCode = 0
    /\ contentType = << >>
    /\ responseLen = 0
    /\ bytesRead = 0
    /\ offset = 0
    /\ totalBytes = 0
    /\ serial = << >>
    /\ posts = 0
    /\ plays = 0
    /\ flushes = 0
    /\ lastWrite = NoWrite
    /\ irregular = 0
    /\ hub = NotValidated
    /\ uttPosts = 0
    /\ emptyPolls = 0
    /\ pin = HIGH
    /\ pinToggles = 0
    /\ pressEdges = 0
    /\ heldPress = FALSE
    /\ streamLeft = 0
    /\ uttBytes = 0
    /\ toWrite = 0
    /\ bytesWritten = 0

CodecWrite ==
    /\ pc = "codec"
    /\ Becomes([Cur EXCEPT
                  !.header = writeWavHeader(@, SizeSub(audioBufferPos,
                                                        WAV_HEADER_SIZE)),
                  !.lastWrite = [op |-> "header", lo |-> 0,
                                 hi |-> WAV_HEADER_SIZE],
                  !.pc = "codec_written"])

CodecValidate ==
    /\ pc = "codec_written"
    /\ \E received \in { audioBufferPos, WAV_HEADER_SIZE,
                         WAV_HEADER_SIZE - 1 } :
          LET v == validateHeader(header, received)
          IN  Becomes([Cur EXCEPT
                         !.hub = [ok |-> v.ok, declared |-> v.declared,
                                  received |-> received],
                         !.pc = "codec_done"])

CodecNext ==
    \/ CodecWrite
    \/ CodecValidate

CodecSpec == CodecInit /\ [][CodecNext]_vars

(***************************************************************************)
(* Properties.                                                             *)
(***************************************************************************)
Has(seq, x) == \E i \in 1..Len(seq) : seq[i] = x
Count(seq, x) == Cardinality({ i \in 1..Len(seq) : seq[i] = x })

\* payload bytes of 0.3 s of audio
MinPayloadBytes == (3 * SAMPLE_RATE * BYTES_PER_SAMPLE) \div 10

\* the write stopRecording makes
HeaderWrite == [op |-> "header", lo |-> 0, hi |-> WAV_HEADER_SIZE]

\* the controller is Idle: between iterations and not capturing
Idle == pc = "loop" /\ ~isRecording

\* C1: an utterance released with fewer than 0.3 s worth of payload bytes
\* never reaches the transport client: in the iteration that stopped it no
\* link check is made, no POST is issued and nothing is in flight; this is
\* so in every reachable state, hence after any number of short presses.
C1_ShortUtteranceNeverSent ==
    (Has(serial, "REC_STOPPED")
        /\ SizeSub(audioBufferPos, WAV_HEADER_SIZE) < MinPayloadBytes)
    => (posts = 0 /\ totalSize = 0 /\ wifi = "unchecked" /\ Idle
        /\ Has(serial, "REC_TOO_SHORT"))

\* the largest utterance that is discarded has been released
C1_Witness ==
    /\ Has(serial, "REC_TOO_SHORT")
    /\ audioBufferPos - WAV_HEADER_SIZE = MinPayloadBytes - 1
    /\ posts = 0

\* C2: in the iteration in which a chunk does not fit, the controller does
\* what a release does: stopRecording runs (the header is finalized) and
\* the exchange is entered (the link is checked, and the POST issued when
\* it is up), without waiting for the button to be released.
C2_BufferFullProceedsAsRelease ==
    Has(serial, "REC_BUFFER_FULL")
    => (/\ Has(serial, "REC_STOPPED")
        /\ lastWrite = HeaderWrite
        /\ wifi # "unchecked"
        /\ (wifi = "connected" => posts = 1))

\* C3: the write cursor never exceeds the capacity of the buffer and no
\* capture write reaches an offset at or beyond it; capture writes start
\* behind the reserved header.
C3_CaptureWithinCapacity ==
    /\ audioBufferPos <= BufferCapacity
    /\ lastWrite.op = "capture"
          => (/\ WAV_HEADER_SIZE <= lastWrite.lo
              /\ lastWrite.lo < lastWrite.hi
              /\ lastWrite.hi <= BufferCapacity
              /\ lastWrite.hi - lastWrite.lo <= I2S_READ_BUF_SIZE)

\* a chunk did not fit, after chunks of several sizes
C3_Witness ==
    /\ Has(serial, "REC_BUFFER_FULL")
    /\ lastWrite.op = "capture"
    /\ audioBufferPos + I2S_READ_BUF_SIZE > BufferCapacity
    /\ irregular > 0

\* C4: once capture has been stopped by the buffer-full condition, the
\* header in the buffer declares the payload actually written,
\* audioBufferPos - WAV_HEADER_SIZE.
C4_BufferFullHeaderDeclaresPayload ==
    Has(serial, "REC_BUFFER_FULL")
    => (/\ validateHeader(header, audioBufferPos).ok
        /\ validateHeader(header, audioBufferPos).declared
              = audioBufferPos - WAV_HEADER_SIZE)

\* C5: while a request is in flight the latest write into the buffer is the
\* header write (so no capture write came after it), the header declares
\* audioBufferPos - WAV_HEADER_SIZE payload bytes, and the body handed to
\* the POST is WAV_HEADER_SIZE plus the declared length long.
C5_SentHeaderMatchesPayload ==
    (pc = "post" \/ posts > 0)
    => (/\ posts = 1
        /\ lastWrite.op = "header" \/ lastWrite.op = "recv"
        /\ pc = "post"
              => (/\ lastWrite = HeaderWrite
                  /\ validateHeader(header, totalSize).ok
                  /\ validateHeader(header, totalSize).declared
                        = audioBufferPos - WAV_HEADER_SIZE
                  /\ totalSize = WAV_HEADER_SIZE
                        + validateHeader(header, totalSize).declared
                  /\ audioDataSize = audioBufferPos - WAV_HEADER_SIZE))

\* scenario 1: one second of audio is in flight
C5_Witness ==
    /\ pc = "post"
    /\ audioBufferPos - WAV_HEADER_SIZE = SAMPLE_RATE * BYTES_PER_SAMPLE
    /\ Le32(header, 40) = SAMPLE_RATE * BYTES_PER_SAMPLE

\* C6: a consumer that received at least the header accepts the header
\* written for a payload of n bytes, 0 < n <= MAX_AUDIO_BYTES, and reads n
\* back from the data-chunk length field.
C6_HeaderRoundTrip ==
    (pc = "codec_done" /\ hub.received >= WAV_HEADER_SIZE)
    => (/\ hub.ok
        /\ hub.declared = audioBufferPos - WAV_HEADER_SIZE
        /\ hub.declared > 0)

\* the largest payload has made the round trip
C6_Witness ==
    /\ pc = "codec_done"
    /\ hub.ok
    /\ hub.received = BufferCapacity
    /\ hub.declared = MAX_AUDIO_BYTES

\* the response of the exchange is classified Audio / Text
AudioResponse ==
    /\ httpCode = HTTP_CODE_OK
    /\ startsWith(contentType, AUDIO_WAV)
    /\ responseLen > WAV_HEADER_SIZE
TextResponse ==
    /\ httpCode = HTTP_CODE_OK
    /\ ~(startsWith(contentType, AUDIO_WAV) /\ responseLen > WAV_HEADER_SIZE)

\* the exchange of this iteration has returned
ExchangeReturned == pc = "loop" /\ posts > 0

\* C7: playback runs only inside an exchange whose response is Audio and
\* fits the buffer, and at most once; when such an exchange has returned,
\* playback has run exactly once; when an exchange with a Text response
\* has returned, playback has not run.
C7_PlaybackOncePerAudioResponse ==
    /\ plays <= 1
    /\ (plays > 0 \/ pc = "play" \/ flushes > 0)
          => (/\ posts = 1
              /\ AudioResponse
              /\ responseLen <= BufferCapacity
              /\ plays = 1)
    /\ (ExchangeReturned /\ AudioResponse /\ responseLen <= BufferCapacity)
          => (plays = 1 /\ Count(serial, "PLAY_DONE") = 1)
    /\ (ExchangeReturned /\ TextResponse)
          => (plays = 0 /\ Has(serial, "HTTP_SERVER_RESPONSE"))

\* an exchange with an Audio response has returned after playing it
C7_Witness ==
    /\ ExchangeReturned
    /\ AudioResponse
    /\ plays = 1
    /\ Has(serial, "PLAY_DONE")
    /\ offset = responseLen

\* C8: a success response classified Audio whose declared length exceeds
\* the capacity is reported as too large, no byte of it is written into
\* the buffer (the latest write is still the header write of
\* stopRecording, and the header is the one it wrote), playback is not
\* invoked, and the controller is back in Idle.
C8_TooLargeResponseRejected ==
    (posts > 0 /\ AudioResponse /\ responseLen > BufferCapacity)
    => (/\ Count(serial, "HTTP_TOO_LARGE") = 1
        /\ bytesRead = 0
        /\ lastWrite = HeaderWrite
        /\ header = writeWavHeader(header, audioDataSize)
        /\ plays = 0
        /\ flushes = 0
        /\ Idle)

\* a too-large Audio response has been handled
C8_Witness ==
    /\ ExchangeReturned
    /\ AudioResponse
    /\ responseLen = BufferCapacity + 1
    /\ Has(serial, "HTTP_TOO_LARGE")

\* C9: after a non-success status exactly one transport error has been
\* reported, nothing of a body was read into the buffer, playback has not
\* run, the request count of the utterance stays at one, and the
\* controller is Idle with the busy indicator off.
C9_TransportErrorHandling ==
    (posts > 0 /\ httpCode # 0 /\ httpCode # HTTP_CODE_OK)
    => (/\ Count(serial, "HTTP_ERROR") = 1
        /\ ~Has(serial, "HTTP_RESPONSE_RECEIVED")
        /\ bytesRead = 0
        /\ lastWrite = HeaderWrite
        /\ plays = 0
        /\ posts = 1
        /\ Idle
        /\ led = LOW)

\* the hub answered 500
C9_Witness ==
    /\ ExchangeReturned
    /\ httpCode = 500
    /\ Has(serial, "HTTP_ERROR")

\* C10: when the link is down at the release of a long-enough utterance,
\* no request is sent and no playback runs, the buffer and the cursor are
\* as stopRecording left them, the busy indicator stays off and the
\* controller is Idle.
C10_LinkDownSkipsExchange ==
    wifi = "down"
    => (/\ DurationLongEnough(audioDataSize)
        /\ posts = 0
        /\ totalSize = 0
        /\ plays = 0
        /\ lastWrite = HeaderWrite
        /\ header = writeWavHeader(header, audioDataSize)
        /\ audioBufferPos = WAV_HEADER_SIZE + audioDataSize
        /\ led = LOW
        /\ Idle
        /\ Has(serial, "HTTP_WIFI_DOWN"))

\* a long-enough utterance was released with the link down
C10_Witness ==
    /\ wifi = "down"
    /\ Has(serial, "REC_STOPPED")
    /\ audioDataSize >= MinPayloadBytes
    /\ Idle

\* sendAudioToServer() is in flight: blocked in http.POST, in the receive
\* loop, or in playAudio()
InExchange == pc \in {"post", "recv", "play"}

\* C11: when the button is pressed, released and pressed again between two
\* consecutive samples of loop(), the first of which read it released, the
\* iteration of the second sample starts exactly one recording and the
\* controller is Recording; and an iteration starts a recording only when
\* the previous sample read the button released, so the samples that follow
\* while the button is held start none.
C11_DoublePressStartsOnce ==
    [][/\ (pc = "loop" /\ Has(serial', "REC_STARTED"))
            => /\ buttonState = HIGH
               /\ buttonState' = LOW
               /\ Count(serial', "REC_STARTED") = 1
       /\ (pc = "loop" /\ buttonState = HIGH /\ buttonState' = LOW
              /\ pressEdges' = 2)
            => /\ ~isRecording
               /\ isRecording'
               /\ Count(serial', "REC_STARTED") = 1
               /\ audioBufferPos' <= WAV_HEADER_SIZE + I2S_READ_BUF_SIZE
      ]_vars
C11_Witness ==
    /\ pc = "loop"
    /\ pressEdges = 2
    /\ buttonState = LOW
    /\ ~heldPress
    /\ isRecording
    /\ Count(serial, "REC_STARTED") = 1

\* C12: an audio response of declared length L, 44 < L <= capacity, is
\* read into the buffer from offset 0 (the buffer then begins with the
\* header the hub sent), each read landing where the previous one ended;
\* playback starts only when L bytes have been read, starts after the
\* header, and has been handed the L - 44 bytes that follow the header when
\* the exchange returns.
C12_AudioReceivedAndPlayedWhole ==
    /\ pc = "recv"
         => /\ AudioResponse
            /\ responseLen <= BufferCapacity
            /\ 0 <= bytesRead /\ bytesRead < responseLen
            /\ bytesRead > 0
                 => /\ lastWrite.op = "recv"
                    /\ 0 <= lastWrite.lo /\ lastWrite.lo < lastWrite.hi
                    /\ lastWrite.hi = bytesRead
    /\ plays > 0
         => /\ AudioResponse
            /\ bytesRead = responseLen
            /\ totalBytes = responseLen
            /\ header = ResponseHeader(responseLen)
            /\ WAV_HEADER_SIZE <= offset /\ offset <= totalBytes
            /\ pc = "play" => offset < totalBytes
            /\ pc = "loop"
                 => offset - WAV_HEADER_SIZE = responseLen - WAV_HEADER_SIZE
C12_Witness ==
    /\ ExchangeReturned
    /\ AudioResponse
    /\ responseLen = WAV_HEADER_SIZE + 1600
    /\ bytesRead = WAV_HEADER_SIZE + 1600
    /\ offset - WAV_HEADER_SIZE = 1600
    /\ Count(serial, "PLAY_DONE") = 1

\* C13: while the receive loop runs, its exit stays within reach: the bytes
\* read so far and the bytes the hub has yet to deliver together reach the
\* declared length, so the exchange can end.
C13_ExchangeCanEnd ==
    pc = "recv" => bytesRead + streamLeft >= responseLen

\* C14 as stated: the iteration whose sample reads a press made while the
\* exchange was in flight starts no recording, captures nothing and leaves
\* the cursor alone.
C14_PressDuringExchangeIgnored ==
    heldPress
      => /\ ~Has(serial, "REC_STARTED")
         /\ ~isRecording
         /\ lastWrite.op # "capture"

\* C14: while the exchange is in flight, whatever the button does, no
\* recording is in progress, nothing is captured and the cursor stays where
\* the request was sent from; a press made and let go between two samples
\* starts nothing; a press made during the exchange and still held when it
\* has returned is read by the next sample as a press edge and starts a
\* recording there.
C14_PressDuringExchangeDeferred ==
    /\ InExchange
         => /\ ~isRecording
            /\ ~Has(serial, "REC_STARTED")
            /\ lastWrite.op # "capture"
            /\ audioBufferPos = totalSize
    /\ (pc = "loop" /\ pressEdges > 0 /\ buttonState = HIGH)
         => /\ ~Has(serial, "REC_STARTED")
            /\ ~isRecording
    /\ heldPress
         => /\ Count(serial, "REC_STARTED") = 1
            /\ isRecording
            /\ audioBufferPos <= WAV_HEADER_SIZE + I2S_READ_BUF_SIZE
C14_Witness ==
    /\ heldPress
    /\ isRecording
    /\ Has(serial, "REC_STARTED")
    /\ lastWrite.op = "capture"
    /\ uttPosts = 0

\* C15: the buffer is in one phase at a time: a recording is in progress
\* only in loop(); while the request is in flight the latest write is the
\* header of that request; the response is written only in the receive
\* loop, after the POST has returned; playback reads only when the whole
\* response has been written.
C15_PhasesExclusive ==
    /\ isRecording => pc = "loop"
    /\ lastWrite.op = "capture" => pc = "loop"
    /\ pc = "post" => (lastWrite = HeaderWrite /\ bytesRead = 0)
    /\ pc = "recv" => lastWrite.op \in {"header", "recv"}
    /\ pc = "play" => (lastWrite.op = "recv" /\ bytesRead = responseLen)
C15_Witness ==
    /\ pc = "play"
    /\ pin = LOW
    /\ lastWrite.op = "recv"
    /\ ~isRecording

\* C16: between two starts of a recording http.POST is called at most once,
\* and at most once in an iteration of loop(); whenever a request is in
\* flight or has been made in this iteration, it is the one request of the
\* recording that this iteration stopped.
C16_OneRequestPerUtterance ==
    /\ uttPosts <= 1
    /\ posts <= 1
    /\ (InExchange \/ posts > 0)
         => /\ posts = 1
            /\ uttPosts = 1
            /\ Count(serial, "HTTP_SENDING") = 1
            /\ Count(serial, "REC_STOPPED") = 1
            /\ ~Has(serial, "REC_STARTED")
C16_Witness ==
    /\ ExchangeReturned
    /\ httpCode = 404
    /\ uttPosts = 1
    /\ Count(serial, "HTTP_SENDING") = 1

\* C17: as long as the buffer is not allocated the program is in setup() or
\* halted in it: nothing is being recorded, nothing has been written to the
\* buffer, no request has been made and playback has not run; the halt is
\* reported and is final, no step leaves it.
C17_AllocationFailureHalts ==
    [][/\ pc # "halted"
       /\ audioBuffer' = "nullptr"
            => /\ pc' \in {"setup", "halted"}
               /\ ~isRecording'
               /\ lastWrite' = NoWrite
               /\ uttPosts' = 0 /\ posts' = 0 /\ plays' = 0
               /\ audioBufferPos' = 0
               /\ pc' = "halted" => serial' = <<"MEM_FATAL">>
      ]_vars
C17_Witness ==
    /\ pc = "halted"
    /\ audioBuffer = "nullptr"
    /\ serial = <<"MEM_FATAL">>

\* C18: a pass of the receive loop that finds nothing available leaves the
\* loop running, reads nothing and reports nothing; and playback starts
\* only with the number of bytes read equal to the declared length.
C18_EmptyPollKeepsReceiving ==
    [][/\ emptyPolls' > emptyPolls
            => /\ pc = "recv" /\ pc' = "recv"
               /\ bytesRead' = bytesRead
               /\ serial' = serial
               /\ plays' = 0
               /\ led' = HIGH
       /\ plays' > plays
            => /\ bytesRead' = responseLen'
               /\ totalBytes' = responseLen'
      ]_vars
C18_Witness ==
    /\ ExchangeReturned
    /\ emptyPolls > 0
    /\ plays = 1
    /\ bytesRead = responseLen
    /\ Has(serial, "PLAY_DONE")

\* C19: a response with status 200 is announced as audio exactly when its
\* content type starts with audio/wav and its declared length is greater
\* than 44; every other response with status 200 is printed as text, and
\* then nothing of it is read into the buffer and playback does not run.
C19_AudioClassification ==
    Has(serial, "HTTP_RESPONSE_RECEIVED")
      => /\ Has(serial, "HTTP_AUDIO_RESPONSE")
              <=> (startsWith(contentType, AUDIO_WAV)
                     /\ responseLen > WAV_HEADER_SIZE)
         /\ Has(serial, "HTTP_SERVER_RESPONSE")
              <=> ~(startsWith(contentType, AUDIO_WAV)
                      /\ responseLen > WAV_HEADER_SIZE)
         /\ Has(serial, "HTTP_SERVER_RESPONSE")
              => /\ plays = 0
                 /\ bytesRead = 0
                 /\ lastWrite = HeaderWrite
                 /\ pc = "loop"
C19_Witness ==
    /\ Has(serial, "HTTP_SERVER_RESPONSE")
    /\ startsWith(contentType, AUDIO_WAV)
    /\ responseLen = WAV_HEADER_SIZE
    /\ plays = 0

C21_TextLeavesBuffer ==
    (ExchangeReturned /\ TextResponse)
      => /\ header = writeWavHeader(ZeroHeader, audioDataSize)
         /\ lastWrite = HeaderWrite
         /\ bytesRead = 0
         /\ audioBufferPos = totalSize
         /\ audioBufferPos = WAV_HEADER_SIZE + uttBytes
C21_Witness ==
    /\ ExchangeReturned
    /\ TextResponse
    /\ Has(serial, "HTTP_SERVER_RESPONSE")
    /\ ~startsWith(contentType, AUDIO_WAV)
    /\ responseLen = WAV_HEADER_SIZE + 1600

\* C22: the iteration that starts a recording leaves the cursor at 44 plus
\* the bytes of its own chunk; while a recording is in progress the cursor
\* is 44 plus the bytes captured since its start; and the payload size
\* computed at the stop, written into the header and sent is the count of
\* the bytes captured since that start, whatever the buffer held before.
C22_StartResetsCursor ==
    /\ Has(serial, "REC_STARTED")
         => /\ audioBufferPos = WAV_HEADER_SIZE + uttBytes
            /\ uttBytes <= I2S_READ_BUF_SIZE
    /\ isRecording => audioBufferPos = WAV_HEADER_SIZE + uttBytes
    /\ Has(serial, "REC_STOPPED") => audioDataSize = uttBytes
    /\ pc = "post"
         => /\ totalSize = WAV_HEADER_SIZE + uttBytes
            /\ Le32(header, 40) = uttBytes
C22_Witness ==
    /\ Has(serial, "REC_STARTED")
    /\ header = ResponseHeader(WAV_HEADER_SIZE + 1600)
    /\ uttBytes = I2S_READ_BUF_SIZE
    /\ audioBufferPos = WAV_HEADER_SIZE + I2S_READ_BUF_SIZE

\* C23: an iteration of loop() whose sample reads the button down, after a
\* sample that read it down and with no change of the button in between,
\* starts no recording; and when capture had been stopped before it, it
\* captures nothing, prints nothing, and leaves the cursor, the buffer, the
\* LED and the recording flag as they were.
C23_OnlyEdgesActedOn ==
    [][(pc = "loop" /\ buttonState = LOW /\ buttonState' = LOW
          /\ pressEdges' = 0)
         => /\ ~Has(serial', "REC_STARTED")
            /\ ~isRecording
                 => /\ ~isRecording'
                    /\ audioBufferPos' = audioBufferPos
                    /\ lastWrite' = lastWrite
                    /\ header' = header
                    /\ led' = led
                    /\ serial' = << >>
                    /\ pc' = "loop"
      ]_vars
C23_Witness ==
    /\ pc = "loop"
    /\ buttonState = LOW
    /\ pressEdges = 0
    /\ ~isRecording
    /\ serial = << >>
    /\ lastWrite.op = "capture"
    /\ audioBufferPos + I2S_READ_BUF_SIZE > BufferCapacity

\* C24: during playback the bytes accepted by the speaker are the bytes
\* from offset 44 up to the playback offset, which never passes totalBytes;
\* no write offers more than 1024 bytes; the flush has not happened while
\* bytes remain, and when playback has returned everything from 44 to
\* totalBytes - 1 has been accepted and the flush has happened once.
C24_PlaybackPushesPcmOnce ==
    /\ plays = 0 => (flushes = 0 /\ bytesWritten = 0 /\ toWrite = 0)
    /\ plays > 0
         => /\ bytesWritten = offset - WAV_HEADER_SIZE
            /\ WAV_HEADER_SIZE <= offset /\ offset <= totalBytes
            /\ 0 <= toWrite /\ toWrite <= PLAY_CHUNK_SIZE
            /\ pc = "play"
                 => /\ flushes = 0
                    /\ offset < totalBytes
                    /\ ~Has(serial, "PLAY_DONE")
            /\ pc = "loop"
                 => /\ flushes = 1
                    /\ bytesWritten = totalBytes - WAV_HEADER_SIZE
                    /\ Count(serial, "PLAY_DONE") = 1
C24_Witness ==
    /\ ExchangeReturned
    /\ plays = 1
    /\ flushes = 1
    /\ totalBytes = WAV_HEADER_SIZE + 1600
    /\ bytesWritten = 1600

\* C25: where stopRecording and the release branch subtract 44 from the
\* cursor the cursor is at least 44, so the payload size is the plain
\* difference and has not wrapped; and playback runs with totalBytes above
\* 44, so totalBytes - 44 does not wrap either.
C25_NoUnsignedUnderflow ==
    /\ Has(serial, "REC_STOPPED")
         => /\ audioBufferPos >= WAV_HEADER_SIZE
            /\ audioDataSize = audioBufferPos - WAV_HEADER_SIZE
            /\ audioDataSize # SIZE_WRAPPED
    /\ plays > 0
         => /\ totalBytes > WAV_HEADER_SIZE
            /\ SizeSub(totalBytes, WAV_HEADER_SIZE)
                 = totalBytes - WAV_HEADER_SIZE
C25_Witness ==
    /\ Has(serial, "REC_STOPPED")
    /\ audioBufferPos = WAV_HEADER_SIZE
    /\ audioDataSize = 0

\* C26: between two iterations of loop() the LED is on exactly when a
\* recording is in progress; in particular it is off when the controller is
\* Idle.
C26_LedTracksRecording ==
    pc = "loop" => (led = HIGH <=> isRecording)
C26_Witness ==
    /\ Idle
    /\ led = LOW
    /\ buttonState = LOW
    /\ Has(serial, "REC_BUFFER_FULL")

\* C27: while an audio response of declared length L is received, and when
\* it has been received, the bytes read are at most L, L is at most the
\* capacity, and the latest write of the receive loop lies within the
\* offsets 0 to L and ends at the count of bytes read.
C27_ReceiveWithinDeclaredLength ==
    (pc = "recv" \/ plays > 0)
      => /\ 0 <= bytesRead /\ bytesRead <= responseLen
         /\ responseLen <= BufferCapacity
         /\ lastWrite.op = "recv"
              => /\ 0 <= lastWrite.lo /\ lastWrite.lo < lastWrite.hi
                 /\ lastWrite.hi <= responseLen
                 /\ lastWrite.hi = bytesRead
C27_Witness ==
    /\ pc = "recv"
    /\ bytesRead > 0
    /\ streamLeft > responseLen - bytesRead
    /\ lastWrite.op = "recv"

====
